---- MODULE Spec2Model ----
(***************************************************************************)
(* emailBlaster (src/main.py): the chunker, the bulk delete, the paginated *)
(* mark-read and archive loops, the label resolver, the search and main's  *)
(* dispatch, run against a model of the remote mail service.               *)
(*                                                                         *)
(* One behaviour is one call of one function of the script (entry), with   *)
(* inputs and a mailbox drawn in Init.  Every remote call is one step and  *)
(* may fail with HttpError, the one error the script catches.              *)
(***************************************************************************)
EXTENDS Integers, Sequences, FiniteSets, TLC

\* ---------------------------------------------------------------- bounds
\* longest sequence handed to chunked directly
MaxLen == 3
\* chunk sizes handed to chunked directly: -MaxSize .. MaxSize
MaxSize == 4
\* messages of a small mailbox: ids 1 .. n, n <= MaxMsgs
MaxMsgs == 3
\* largest page the service cuts for a small mailbox
MaxPage == 2
\* readings of the clock
MaxTime == 2

\* ------------------------------------------------------ program constants
\* chunked(message_ids, 1000), "the api limit"
CHUNK_SIZE == 1000
\* maxResults=1000 of mark_as_read's list request
MARK_MAX_RESULTS == 1000
\* maxResults=1000 of archive_all_mail's list request
ARCHIVE_MAX_RESULTS == 1000
\* "the API limit for batch operations" of the docstrings
API_LIMIT == 1000

Min(a, b) == IF a < b THEN a ELSE b
Max(a, b) == IF a > b THEN a ELSE b
SeqRange(s) == {s[k] : k \in 1..Len(s)}
Ids(n) == [k \in 1..n |-> k]

VARIABLES
    entry,          \* the function of the script this behaviour calls
    pc,             \* position in the code
    iterable, size, \* chunked's arguments
    out,            \* what consuming chunked(iterable, size) gave
    message_ids,    \* batch_delete_messages' argument
    chunkIdx,       \* batch_delete_messages: next chunk of the generator
    args,           \* main: the parsed command line
    nMsgs,          \* service: the mailbox started with messages 1..nMsgs
    existing,       \* service: messages not deleted
    inbox, unread,  \* service: messages carrying INBOX, UNREAD
    tagged,         \* service: <<message, label id>> of user labels applied
    matching,       \* service: messages the search query matches
    inbox0, unread0,\* the mailbox when the run started
    labels,         \* service: the label list, records [name, id]
    serverKind,     \* service: how list requests are answered
    pageSize,       \* service: its own page size
    now,            \* the clock
    label_name,     \* get_or_create_label's argument / archive's unique_label_name
    label_id,       \* get_or_create_label's result / archive's label_id
    nextPageToken,  \* the loops' continuation token, 0 for None
    page,           \* ids of the page last listed
    total,          \* total_marked / total_archived
    reported,       \* the total printed at the end of a loop, -1 while none
    messages,       \* search_messages' accumulated summaries (their ids)
    retNone,        \* search_messages returned None
    calls,          \* bulk and create calls issued, in order
    pages,          \* the non-empty pages the loops were given, in order
    failed,         \* a remote call raised HttpError
    lateCall,       \* a remote call was issued after one had failed
    prompts         \* main: the prompts shown, with the answers

vars == <<entry, pc, iterable, size, out, message_ids, chunkIdx, args, nMsgs,
          existing, inbox, unread, tagged, matching, inbox0, unread0, labels,
          serverKind, pageSize, now, label_name, label_id, nextPageToken, page,
          total, reported, messages, retNone, calls, pages, failed, lateCall,
          prompts>>

\* ---------------------------------------------------------------- chunked
\* Python's range(start, stop, step) for step # 0, as the sequence it yields
RECURSIVE Range(_, _, _)
Range(start, stop, step) ==
    IF (step > 0 /\ start < stop) \/ (step < 0 /\ start > stop)
    THEN <<start>> \o Range(start + step, stop, step)
    ELSE <<>>

\* Python's clamping of a slice index k for a sequence of length n
SliceIndex(k, n) == IF k < 0 THEN Max(k + n, 0) ELSE Min(k, n)

\* Python's s[i:j]
Slice(s, i, j) == SubSeq(s, SliceIndex(i, Len(s)) + 1, SliceIndex(j, Len(s)))

\* chunked with the slice one element too long: iterable[i : i + size + 1]
ChunkedLongSlice(it, sz) ==
    IF sz = 0
    THEN [error |-> "ValueError", chunks |-> <<>>]
    ELSE LET starts == Range(0, Len(it), sz)
         IN  [error  |-> "none",
              chunks |-> [k \in 1..Len(starts) |->
                              Slice(it, starts[k], starts[k] + sz + 1)]]

\* chunked(iterable, size), consumed to its end: the chunks yielded, and the
\* error raised instead (range() raises ValueError for a step of zero and is
\* empty for a negative step)
Chunked(it, sz) ==
    IF sz = 0
    THEN [error |-> "ValueError", chunks |-> <<>>]
    ELSE LET starts == Range(0, Len(it), sz)
         IN  [error  |-> "none",
              chunks |-> [k \in 1..Len(starts) |->
                              Slice(it, starts[k], starts[k] + sz)]]

\* ------------------------------------------------------ the remote service
NoToken == 0
INBOX == "INBOX"
UNREAD == "UNREAD"
LabelIdTable == <<"Label_1", "Label_2", "Label_3", "Label_4", "Label_5">>
\* the identifier the service assigns to the next label created
NewLabelId(ls) == LabelIdTable[Len(ls) + 1]

\* the elements of a set of message ids in the service's order
Sorted(S) ==
    LET In(m) == m \in S
    IN  SelectSeq(Ids(nMsgs), In)

\* what a query selects now, and what it selected when the run started
Candidates(q) ==
    CASE q = "is:unread" -> unread \cap existing
      [] q = "in:inbox"  -> inbox \cap existing
      [] OTHER           -> matching \cap existing
Snapshot(q) ==
    CASE q = "is:unread" -> unread0
      [] q = "in:inbox"  -> inbox0
      [] OTHER           -> matching

\* messages.list(q, maxResults, pageToken): maxResults 0 when not given.
\*   honest:   the next page after the cursor, at most maxResults long, with
\*             a token while more remain
\*   oversize: the same, ignoring maxResults
\*   stale:    answers from the listing as it was, ignores the cursor and
\*             always hands out a token
ListResponse(q, maxResults, pageToken) ==
    LET lim == IF serverKind = "honest" /\ maxResults > 0
               THEN Min(pageSize, maxResults) ELSE pageSize
    IN  IF serverKind = "stale"
        THEN [messages      |-> SubSeq(Sorted(Snapshot(q)), 1,
                                       Min(lim, Cardinality(Snapshot(q)))),
              nextPageToken |-> IF pageToken = 1 THEN 2 ELSE 1]
        ELSE LET rest == Sorted({m \in Candidates(q) : m > pageToken})
                 pg   == SubSeq(rest, 1, Min(lim, Len(rest)))
             IN  [messages      |-> pg,
                  nextPageToken |-> IF Len(rest) > Len(pg)
                                    THEN pg[Len(pg)] ELSE NoToken]

\* one entry of the log of mutating calls
Call(api, ids, remove, add, ok) ==
    [api |-> api, ids |-> ids, remove |-> remove, add |-> add, ok |-> ok]
\* a remote call is being issued: note one issued after a failure
Issue == lateCall' = (lateCall \/ failed)

\* the service applying messages.batchModify
ModifiedInbox(ids, remove) ==
    IF INBOX \in remove THEN inbox \ SeqRange(ids) ELSE inbox
ModifiedUnread(ids, remove) ==
    IF UNREAD \in remove THEN unread \ SeqRange(ids) ELSE unread
ModifiedTagged(ids, add) ==
    tagged \cup {<<m, l>> : m \in SeqRange(ids), l \in add}

\* ------------------------------------------------------------ frame groups
inputV == <<entry, iterable, size, args, nMsgs, matching, inbox0, unread0,
            serverKind, pageSize>>
mailV == <<existing, inbox, unread, tagged>>
loopV == <<nextPageToken, page, total, reported, pages>>
searchV == <<messages, retNone>>
labelV == <<label_name, label_id>>
deleteV == <<message_ids, chunkIdx>>

\* ------------------------------------------------------------------ chunked
\* list(chunked(iterable, size)): main.py:99-111
ChunkedCall ==
    /\ pc = "ch_call"
    /\ out' = Chunked(iterable, size)
    /\ pc' = IF out'.error = "none" THEN "done" ELSE "raised"
    /\ UNCHANGED <<inputV, mailV, loopV, searchV, labelV, deleteV, labels, now,
                   calls, failed, lateCall, prompts>>

\* ---------------------------------------------------- batch_delete_messages
\* the for loop drawing chunks one id longer than the limit
DeleteChunksTooLong == Chunked(message_ids, CHUNK_SIZE + 1).chunks

\* the chunks the for loop of batch_delete_messages draws
DeleteChunks == Chunked(message_ids, CHUNK_SIZE).chunks

\* body {"ids": chunk} of one batchDelete call
DeleteBody(chunk) == chunk

\* one turn of the for loop: the generator is exhausted, or the next chunk is
\* sent; HttpError leaves the loop for the except clause
BatchDeleteStep ==
    /\ pc = "bd_loop"
    /\ IF chunkIdx > Len(DeleteChunks)
       THEN /\ pc' = "done"
            /\ UNCHANGED <<chunkIdx, existing, calls, failed, lateCall>>
       ELSE \E ok \in BOOLEAN :
            /\ calls' = Append(calls,
                   Call("batchDelete", DeleteBody(DeleteChunks[chunkIdx]),
                        {}, {}, ok))
            /\ Issue
            /\ IF ok
               THEN /\ existing' = existing \ SeqRange(DeleteBody(DeleteChunks[chunkIdx]))
                    /\ chunkIdx' = chunkIdx + 1
                    /\ pc' = "bd_loop"
                    /\ failed' = failed
               ELSE /\ failed' = TRUE
                    /\ pc' = "done"
                    /\ UNCHANGED <<existing, chunkIdx>>
    /\ UNCHANGED <<inputV, inbox, unread, tagged, loopV, searchV, labelV,
                   message_ids, labels, now, out, prompts>>

\* ------------------------------------------------------------- mark_as_read
\* a body that strips INBOX along with UNREAD
MarkBodyAlsoInbox(ids) ==
    [ids |-> ids, removeLabelIds |-> {UNREAD, INBOX}, addLabelIds |-> {}]

\* batch_modify_body of mark_as_read
MarkBody(ids) == [ids |-> ids, removeLabelIds |-> {UNREAD}, addLabelIds |-> {}]

\* an except clause inside the loop, which then lists again
MarkExceptRetry == "mr_list"

\* where mark_as_read's except clause leaves the function
MarkExcept == "done"

\* the list request of one turn of the while loop, to the first break
MarkList ==
    /\ pc = "mr_list"
    /\ IF total > nMsgs
       THEN /\ pc' = "cutoff"
            /\ UNCHANGED <<loopV, failed, lateCall>>
       ELSE \E ok \in BOOLEAN :
            /\ Issue
            /\ IF ~ok
               THEN /\ failed' = TRUE
                    /\ pc' = MarkExcept
                    /\ UNCHANGED loopV
               ELSE LET response ==
                            ListResponse("is:unread", MARK_MAX_RESULTS, nextPageToken)
                    IN  /\ failed' = failed
                        /\ page' = response.messages
                        /\ nextPageToken' = response.nextPageToken
                        /\ total' = total
                        /\ IF response.messages = <<>>
                           THEN /\ reported' = total
                                /\ pages' = pages
                                /\ pc' = "done"
                           ELSE /\ reported' = reported
                                /\ pages' = Append(pages, response.messages)
                                /\ pc' = "mr_modify"
    /\ UNCHANGED <<inputV, mailV, searchV, labelV, deleteV, labels, now, out,
                   calls, prompts>>

\* the batchModify of the turn, the count and the second break
MarkModify ==
    /\ pc = "mr_modify"
    /\ \E ok \in BOOLEAN :
       LET body == MarkBody(page)
       IN  /\ calls' = Append(calls, Call("batchModify", body.ids,
                                body.removeLabelIds, body.addLabelIds, ok))
           /\ Issue
           /\ IF ~ok
              THEN /\ failed' = TRUE
                   /\ pc' = MarkExcept
                   /\ UNCHANGED <<mailV, total, reported>>
              ELSE /\ failed' = failed
                   /\ inbox' = ModifiedInbox(body.ids, body.removeLabelIds)
                   /\ unread' = ModifiedUnread(body.ids, body.removeLabelIds)
                   /\ tagged' = ModifiedTagged(body.ids, body.addLabelIds)
                   /\ existing' = existing
                   /\ total' = total + Len(body.ids)
                   /\ IF nextPageToken = NoToken
                      THEN reported' = total' /\ pc' = "done"
                      ELSE reported' = reported /\ pc' = "mr_list"
    /\ UNCHANGED <<inputV, nextPageToken, page, pages, searchV, labelV, deleteV,
                   labels, now, out, prompts>>

\* ------------------------------------------------------ get_or_create_label
\* the scan starting at the second label of the list
FindLabelSkipFirst(ls, name) ==
    IF \E k \in 2..Len(ls) : ls[k].name = name
    THEN CHOOSE k \in 2..Len(ls) :
             /\ ls[k].name = name
             /\ \A j \in 2..(k - 1) : ls[j].name # name
    ELSE 0

\* the first label of the list with the name, 0 when there is none
FindLabel(ls, name) ==
    IF \E k \in 1..Len(ls) : ls[k].name = name
    THEN CHOOSE k \in 1..Len(ls) :
             /\ ls[k].name = name
             /\ \A j \in 1..(k - 1) : ls[j].name # name
    ELSE 0

\* where get_or_create_label's return leads: its caller archive_all_mail, or out
LabelReturn == IF entry = "get_or_create_label" THEN "done" ELSE "ar_list"
\* where an HttpError of get_or_create_label leads: archive_all_mail's except
\* clause, or out of the function uncaught
LabelRaise == IF entry = "get_or_create_label" THEN "raised" ELSE "done"

\* labels().list and the scan for the name
LabelList ==
    /\ pc = "gl_list"
    /\ \E ok \in BOOLEAN :
       /\ Issue
       /\ IF ~ok
          THEN /\ failed' = TRUE
               /\ pc' = LabelRaise
               /\ label_id' = label_id
          ELSE /\ failed' = failed
               /\ IF FindLabel(labels, label_name) # 0
                  THEN /\ label_id' = labels[FindLabel(labels, label_name)].id
                       /\ pc' = LabelReturn
                  ELSE /\ label_id' = label_id
                       /\ pc' = "gl_create"
    /\ UNCHANGED <<inputV, mailV, loopV, searchV, label_name, deleteV, labels,
                   now, out, calls, prompts>>

\* labels().create
LabelCreate ==
    /\ pc = "gl_create"
    /\ \E ok \in BOOLEAN :
       /\ calls' = Append(calls, Call("labels.create", <<label_name>>, {}, {}, ok))
       /\ Issue
       /\ IF ~ok
          THEN /\ failed' = TRUE
               /\ pc' = LabelRaise
               /\ UNCHANGED <<labels, label_id>>
          ELSE /\ failed' = failed
               /\ labels' = Append(labels,
                      [name |-> label_name, id |-> NewLabelId(labels)])
               /\ label_id' = NewLabelId(labels)
               /\ pc' = LabelReturn
    /\ UNCHANGED <<inputV, mailV, loopV, searchV, label_name, deleteV, now, out,
                   prompts>>

\* --------------------------------------------------------- archive_all_mail
\* f"archive_{timestamp}" for the clock's reading t
ArchiveName(t) == <<"archive", t>>

\* a body that drops the archive label
ArchiveBodyNoLabel(ids) ==
    [ids |-> ids, removeLabelIds |-> {INBOX}, addLabelIds |-> {}]

\* batch_modify_body of archive_all_mail
ArchiveBody(ids) ==
    [ids |-> ids, removeLabelIds |-> {INBOX}, addLabelIds |-> {label_id}]

\* where archive_all_mail's except clause leaves the function
ArchiveExcept == "done"

\* the timestamp and the label name, then the call of get_or_create_label
ArchiveStart ==
    /\ pc = "ar_start"
    /\ label_name' = ArchiveName(now)
    /\ pc' = "gl_list"
    /\ UNCHANGED <<inputV, mailV, loopV, searchV, label_id, deleteV, labels,
                   now, out, calls, failed, lateCall, prompts>>

\* the list request of one turn of the while loop, to the first break; the
\* clock may have moved on by the time the request is made
ArchiveList ==
    /\ pc = "ar_list"
    /\ IF total > nMsgs
       THEN /\ pc' = "cutoff"
            /\ UNCHANGED <<loopV, failed, lateCall, now>>
       ELSE \E ok \in BOOLEAN, t \in {now, Min(now + 1, MaxTime)} :
            /\ now' = t
            /\ Issue
            /\ IF ~ok
               THEN /\ failed' = TRUE
                    /\ pc' = ArchiveExcept
                    /\ UNCHANGED loopV
               ELSE LET response ==
                            ListResponse("in:inbox", ARCHIVE_MAX_RESULTS, nextPageToken)
                    IN  /\ failed' = failed
                        /\ page' = response.messages
                        /\ nextPageToken' = response.nextPageToken
                        /\ total' = total
                        /\ IF response.messages = <<>>
                           THEN /\ reported' = total
                                /\ pages' = pages
                                /\ pc' = "done"
                           ELSE /\ reported' = reported
                                /\ pages' = Append(pages, response.messages)
                                /\ pc' = "ar_modify"
    /\ UNCHANGED <<inputV, mailV, searchV, labelV, deleteV, labels, out, calls,
                   prompts>>

\* the batchModify of the turn, the count and the second break
ArchiveModify ==
    /\ pc = "ar_modify"
    /\ \E ok \in BOOLEAN :
       LET body == ArchiveBody(page)
       IN  /\ calls' = Append(calls, Call("batchModify", body.ids,
                                body.removeLabelIds, body.addLabelIds, ok))
           /\ Issue
           /\ IF ~ok
              THEN /\ failed' = TRUE
                   /\ pc' = ArchiveExcept
                   /\ UNCHANGED <<mailV, total, reported>>
              ELSE /\ failed' = failed
                   /\ inbox' = ModifiedInbox(body.ids, body.removeLabelIds)
                   /\ unread' = ModifiedUnread(body.ids, body.removeLabelIds)
                   /\ tagged' = ModifiedTagged(body.ids, body.addLabelIds)
                   /\ existing' = existing
                   /\ total' = total + Len(body.ids)
                   /\ IF nextPageToken = NoToken
                      THEN reported' = total' /\ pc' = "done"
                      ELSE reported' = reported /\ pc' = "ar_list"
    /\ UNCHANGED <<inputV, nextPageToken, page, pages, searchV, labelV, deleteV,
                   labels, now, out, prompts>>

\* ---------------------------------------------------------- search_messages
\* where search_messages' return leads: its caller main, or out
SearchReturn == IF entry = "main" THEN "m_after_search" ELSE "done"

\* list_next(previous_request, previous_response): the while loop goes on
\* while the response carried a nextPageToken
SearchAfterPage(token) == IF token = NoToken THEN SearchReturn ELSE "se_list"

\* request.execute() of one turn of the while loop; a response without
\* messages skips the for loop
SearchList ==
    /\ pc = "se_list"
    /\ IF Len(messages) > nMsgs
       THEN /\ pc' = "cutoff"
            /\ UNCHANGED <<nextPageToken, page, pages, retNone, failed, lateCall>>
       ELSE \E ok \in BOOLEAN :
            /\ Issue
            /\ IF ~ok
               THEN /\ failed' = TRUE
                    /\ retNone' = TRUE
                    /\ pc' = SearchReturn
                    /\ UNCHANGED <<nextPageToken, page, pages>>
               ELSE LET response == ListResponse("search", 0, nextPageToken)
                    IN  /\ failed' = failed
                        /\ retNone' = retNone
                        /\ page' = response.messages
                        /\ nextPageToken' = response.nextPageToken
                        /\ IF response.messages = <<>>
                           THEN /\ pages' = pages
                                /\ pc' = SearchAfterPage(response.nextPageToken)
                           ELSE /\ pages' = Append(pages, response.messages)
                                /\ pc' = "se_get"
    /\ UNCHANGED <<inputV, mailV, total, reported, messages, labelV, deleteV,
                   labels, now, out, calls, prompts>>

\* the for loop over the page: one messages().get per message, the summary
\* appended; the f-th get raising HttpError ends the search with None (f = 0:
\* none fails)
SearchGets ==
    /\ pc = "se_get"
    /\ \E f \in 0..Len(page) :
       /\ Issue
       /\ IF f = 0
          THEN /\ messages' = messages \o page
               /\ failed' = failed
               /\ retNone' = retNone
               /\ pc' = SearchAfterPage(nextPageToken)
          ELSE /\ messages' = messages \o SubSeq(page, 1, f - 1)
               /\ failed' = TRUE
               /\ retNone' = TRUE
               /\ pc' = SearchReturn
    /\ UNCHANGED <<inputV, mailV, loopV, labelV, deleteV, labels, now, out,
                   calls, prompts>>

\* --------------------------------------------------------------------- main
\* Python's truth value of args.search: None and "" are false
Truthy(s) == s \notin {"None", ""}

\* str.lower() on the answers typed
Lower(s) ==
    CASE s = "Y"   -> "y"
      [] s = "YES" -> "yes"
      [] s = "Yes" -> "yes"
      [] s = "NO"  -> "no"
      [] OTHER     -> s

\* what the user may type at a prompt
Answers == {"y", "Y", "yes", "YES", "Yes", "no", ""}

\* user_input.lower() == "y": the list is printed
PrintAccepted(answer) == Lower(answer) = "y"
\* a confirmation that takes anything but "no"
DeleteConfirmedUnlessNo(answer) == Lower(answer) # "no"

\* confirm.lower() == "yes": the delete goes ahead
DeleteConfirmed(answer) == Lower(answer) = "yes"

\* the if chain of main: archive, then mark-read, then search
MainDispatch ==
    /\ pc = "m_start"
    /\ pc' = IF args.archive_all_mail THEN "ar_start"
             ELSE IF args.mark_read THEN "mr_list"
             ELSE IF Truthy(args.search) THEN "se_list"
             ELSE "done"
    /\ UNCHANGED <<inputV, mailV, loopV, searchV, labelV, deleteV, labels, now,
                   out, calls, failed, lateCall, prompts>>

\* len(messages), the count and the print prompt; len(None) raises TypeError
MainAfterSearch ==
    /\ pc = "m_after_search"
    /\ IF retNone
       THEN /\ pc' = "crashed"
            /\ prompts' = prompts
       ELSE IF Len(messages) > 0
       THEN \E answer \in Answers :
            /\ prompts' = Append(prompts,
                   [kind |-> "print", answer |-> answer,
                    accepted |-> PrintAccepted(answer)])
            /\ pc' = IF args.delete THEN "m_confirm" ELSE "done"
       ELSE /\ prompts' = prompts
            /\ pc' = "done"
    /\ UNCHANGED <<inputV, mailV, loopV, searchV, labelV, deleteV, labels, now,
                   out, calls, failed, lateCall>>

\* the delete prompt, and on "yes" the call of batch_delete_messages
MainConfirm ==
    /\ pc = "m_confirm"
    /\ \E answer \in Answers :
       /\ prompts' = Append(prompts,
              [kind |-> "delete", answer |-> answer,
               accepted |-> DeleteConfirmed(answer)])
       /\ IF DeleteConfirmed(answer)
          THEN /\ message_ids' = messages
               /\ chunkIdx' = 1
               /\ pc' = "bd_loop"
          ELSE /\ UNCHANGED deleteV
               /\ pc' = "done"
    /\ UNCHANGED <<inputV, mailV, loopV, searchV, labelV, labels, now, out,
                   calls, failed, lateCall>>

\* ------------------------------------------------------------- specification
Items == {"a", "b"}
SeqsUpTo(S, n) == UNION {[1..k -> S] : k \in 0..n}
Reversed(s) == [k \in 1..Len(s) |-> s[Len(s) + 1 - k]]

\* lengths of the id lists handed to batch_delete_messages directly
DeleteLens ==
    (0..MaxMsgs) \cup
    {CHUNK_SIZE - 1, CHUNK_SIZE, CHUNK_SIZE + 1, 2 * CHUNK_SIZE,
     2 * CHUNK_SIZE + 1, 2 * CHUNK_SIZE + 500, 3 * CHUNK_SIZE}

LabelNames == {ArchiveName(1), <<"custom", 0>>}
\* label lists of the mailbox: names in any order, ids as the service gave them
LabelLists ==
    {[k \in 1..Len(ns) |-> [name |-> ns[k], id |-> LabelIdTable[k]]] :
         ns \in SeqsUpTo(LabelNames, 2)}

NoArgs == [search |-> "None", delete |-> FALSE, mark_read |-> FALSE,
           archive_all_mail |-> FALSE]
ArgSets == [search : {"None", "", "q"}, delete : BOOLEAN, mark_read : BOOLEAN,
            archive_all_mail : BOOLEAN]

FirstPc(e) ==
    CASE e = "chunked"               -> "ch_call"
      [] e = "batch_delete_messages" -> "bd_loop"
      [] e = "mark_as_read"          -> "mr_list"
      [] e = "get_or_create_label"   -> "gl_list"
      [] e = "archive_all_mail"      -> "ar_start"
      [] e = "search_messages"       -> "se_list"
      [] e = "main"                  -> "m_start"

\* local state as the functions initialise it
InitLocals ==
    /\ pc = FirstPc(entry)
    /\ out = [error |-> "none", chunks |-> <<>>]
    /\ chunkIdx = 1
    /\ tagged = {}
    /\ inbox0 = inbox /\ unread0 = unread
    /\ label_id = ""
    /\ nextPageToken = NoToken
    /\ page = <<>> /\ pages = <<>>
    /\ total = 0 /\ reported = -1
    /\ messages = <<>> /\ retNone = FALSE
    /\ calls = <<>>
    /\ failed = FALSE /\ lateCall = FALSE
    /\ prompts = <<>>

\* a mailbox of messages 1..n, every one in the inbox and unread but for the
\* set the entry's query is about, which is any subset
InitMailbox(n, sel) ==
    /\ nMsgs = n
    /\ existing = 1..n
    /\ matching = sel
    /\ unread = IF entry \in {"mark_as_read", "main"} THEN sel ELSE 1..n
    /\ inbox = IF entry \in {"archive_all_mail", "main"} THEN sel ELSE 1..n

InitChunked ==
    /\ entry = "chunked"
    /\ iterable \in SeqsUpTo(Items, MaxLen)
    /\ size \in (0 - MaxSize)..MaxSize
    /\ message_ids = <<>> /\ args = NoArgs
    /\ InitMailbox(0, {})
    /\ labels = <<>> /\ serverKind = "honest" /\ pageSize = 1 /\ now = 1
    /\ label_name = <<"custom", 0>>

InitDelete ==
    /\ entry = "batch_delete_messages"
    /\ \E n \in DeleteLens :
       /\ message_ids \in {Ids(n), Reversed(Ids(n))}
       /\ InitMailbox(n, {})
    /\ iterable = <<>> /\ size = 1 /\ args = NoArgs
    /\ labels = <<>> /\ serverKind = "honest" /\ pageSize = 1 /\ now = 1
    /\ label_name = <<"custom", 0>>

InitLabel ==
    /\ entry = "get_or_create_label"
    /\ labels \in LabelLists
    /\ label_name \in LabelNames
    /\ iterable = <<>> /\ size = 1 /\ message_ids = <<>> /\ args = NoArgs
    /\ InitMailbox(0, {})
    /\ serverKind = "honest" /\ pageSize = 1 /\ now = 1

\* a small mailbox, paged by an honest or a stale service
InitSmall ==
    /\ entry \in {"mark_as_read", "archive_all_mail", "search_messages", "main"}
    /\ args \in IF entry = "main" THEN ArgSets ELSE {NoArgs}
    /\ \E n \in 0..MaxMsgs : \E sel \in SUBSET (1..n) : InitMailbox(n, sel)
    /\ serverKind \in {"honest", "stale"}
    /\ pageSize \in 1..MaxPage
    /\ labels \in IF entry = "archive_all_mail" THEN LabelLists ELSE {<<>>}
    /\ now \in IF entry = "archive_all_mail" THEN 1..MaxTime ELSE {1}
    /\ label_name = <<"custom", 0>>
    /\ iterable = <<>> /\ size = 1 /\ message_ids = <<>>

\* a mailbox of one message more than a list request asks for, paged by a
\* service that honours maxResults or one that does not
InitBig ==
    /\ entry \in {"mark_as_read", "archive_all_mail"}
    /\ args = NoArgs
    /\ \E n \in {MARK_MAX_RESULTS + 1} : InitMailbox(n, 1..n)
    /\ serverKind \in {"honest", "oversize"}
    /\ pageSize \in {MARK_MAX_RESULTS, MARK_MAX_RESULTS + 1}
    /\ labels = <<>> /\ now = 1
    /\ label_name = <<"custom", 0>>
    /\ iterable = <<>> /\ size = 1 /\ message_ids = <<>>

Init ==
    /\ InitChunked \/ InitDelete \/ InitLabel \/ InitSmall \/ InitBig
    /\ InitLocals

Next ==
    \/ ChunkedCall
    \/ BatchDeleteStep
    \/ MarkList
    \/ MarkModify
    \/ LabelList
    \/ LabelCreate
    \/ ArchiveStart
    \/ ArchiveList
    \/ ArchiveModify
    \/ SearchList
    \/ SearchGets
    \/ MainDispatch
    \/ MainAfterSearch
    \/ MainConfirm

Spec == Init /\ [][Next]_vars

\* the interpreter runs the script's next step whenever there is one
FairSpec == Spec /\ WF_vars(Next)

\* ================================================================== claims
RECURSIVE Flatten(_)
Flatten(ss) == IF ss = <<>> THEN <<>> ELSE Head(ss) \o Flatten(Tail(ss))

Finished == pc \in {"done", "raised", "crashed", "cutoff"}

CallsOf(api) ==
    LET Is(c) == c.api = api
    IN  SelectSeq(calls, Is)
IdsOf(cs) == [k \in 1..Len(cs) |-> cs[k].ids]
RECURSIVE SumLen(_)
SumLen(ss) == IF ss = <<>> THEN 0 ELSE Len(Head(ss)) + SumLen(Tail(ss))

\* the chunks cs split the sequence s into contiguous pieces of sz, the last
\* possibly shorter, and into none when s is empty
Partitions(cs, s, sz) ==
    /\ Flatten(cs) = s
    /\ \A k \in 1..Len(cs) : Len(cs[k]) <= sz
    /\ \A k \in 1..(Len(cs) - 1) : Len(cs[k]) = sz
    /\ Len(s) = 0 => cs = <<>>

\* C1: for every sequence and every positive chunk size, chunked yields
\* contiguous chunks whose concatenation in order is the input, each at most
\* size long, all but the last exactly size long, and none for an empty input;
\* the same holds of the chunks batch_delete_messages draws with size 1000.
C1_ChunkedPartitions ==
    /\ (entry = "chunked" /\ pc \in {"done", "raised"} /\ size > 0) =>
           /\ pc = "done"
           /\ out.error = "none"
           /\ Partitions(out.chunks, iterable, size)
    /\ (entry = "batch_delete_messages") =>
           Partitions(DeleteChunks, message_ids, CHUNK_SIZE)

\* a call of chunked that split a sequence of 3 by 2: a full and a short chunk
C1_Witness ==
    /\ entry = "chunked" /\ pc = "done"
    /\ size = 2 /\ Len(iterable) = 3
    /\ Len(out.chunks) = 2 /\ Len(out.chunks[2]) = 1

\* C2: chunked fails with an invalid-argument error for every size <= 0, for
\* every input, and yields no chunk then.
C2_ChunkedRejectsNonPositive ==
    (entry = "chunked" /\ pc \in {"done", "raised"} /\ size <= 0) =>
        /\ pc = "raised"
        /\ out.error = "ValueError"
        /\ out.chunks = <<>>

\* C3: batch_delete_messages, with no remote failure, issues ceil(N/1000)
\* bulk-delete calls in input order, each of at most 1000 ids and all but the
\* last of exactly 1000, and the calls' ids concatenated are the input: every
\* id is carried by one call, none left out, none sent twice.
C3_DeleteCallsPartition ==
    (entry = "batch_delete_messages" /\ pc = "done" /\ ~failed) =>
        /\ \A k \in 1..Len(calls) : calls[k].api = "batchDelete" /\ calls[k].ok
        /\ Len(calls) = (Len(message_ids) + API_LIMIT - 1) \div API_LIMIT
        /\ Partitions(IdsOf(calls), message_ids, API_LIMIT)
        /\ existing \cap SeqRange(message_ids) = {}

\* 2500 ids deleted by three calls of 1000, 1000 and 500
C3_Witness ==
    /\ entry = "batch_delete_messages" /\ pc = "done" /\ ~failed
    /\ Len(message_ids) = 2 * API_LIMIT + 500
    /\ Len(calls) = 3
    /\ Len(calls[1].ids) = API_LIMIT /\ Len(calls[3].ids) = 500

\* C5: every paginating loop terminates, whatever the service answers.
C5_LoopsTerminate == <>Finished

\* C6: every bulk call of the three mutations carries at most 1000 ids,
\* whatever the size of the page the service returned.
C6_BulkCallsWithinLimit ==
    \A k \in 1..Len(calls) :
        calls[k].api \in {"batchDelete", "batchModify"} =>
            Len(calls[k].ids) <= API_LIMIT

ArchiveScope ==
    \/ entry = "archive_all_mail"
    \/ entry = "main" /\ args.archive_all_mail
MarkScope ==
    \/ entry = "mark_as_read"
    \/ entry = "main" /\ ~args.archive_all_mail /\ args.mark_read

\* the label names the list held when the run started: create appends
Labels0 == SubSeq(labels, 1, Len(labels) - Len(SelectSeq(CallsOf("labels.create"),
                                                   LAMBDA c : c.ok)))

\* C4: when archive_all_mail runs to completion without a remote failure,
\* every message that was in the inbox at the start has lost INBOX and carries
\* the one archive label, over however many pages; the label's name and
\* identifier are resolved once, before the first page is listed, so every
\* bulk-modify call adds that same identifier.
C4_ArchiveMovesInbox ==
    ArchiveScope =>
        /\ (pc \in {"ar_list", "ar_modify"} \/ (pc = "done" /\ ~failed)) =>
               /\ label_id # ""
               /\ \E k \in 1..Len(labels) :
                      labels[k] = [name |-> label_name, id |-> label_id]
               /\ Len(CallsOf("labels.create")) <= 1
               /\ pages = <<>> => Len(calls) = Len(CallsOf("labels.create"))
        /\ \A k \in 1..Len(calls) :
               calls[k].api = "batchModify" =>
                   /\ calls[k].add = {label_id}
                   /\ calls[k].remove = {INBOX}
        /\ (pc = "done" /\ ~failed) =>
               /\ inbox \cap inbox0 = {}
               /\ tagged = {<<m, label_id>> : m \in inbox0}
               /\ reported = Cardinality(inbox0)

\* an archive run over two pages and more, finished after the clock moved on
C4_Witness ==
    /\ ArchiveScope /\ pc = "done" /\ ~failed
    /\ Len(pages) >= 2
    /\ Cardinality(inbox0) >= 3
    /\ label_name # ArchiveName(now)
    /\ inbox = {}

\* the service still shows what every call that succeeded did
AppliedRemain ==
    \A k \in 1..Len(calls) :
        calls[k].ok =>
            CASE calls[k].api = "batchDelete" ->
                     existing \cap SeqRange(calls[k].ids) = {}
              [] calls[k].api = "batchModify" ->
                     /\ INBOX \in calls[k].remove =>
                            inbox \cap SeqRange(calls[k].ids) = {}
                     /\ UNREAD \in calls[k].remove =>
                            unread \cap SeqRange(calls[k].ids) = {}
                     /\ \A m \in SeqRange(calls[k].ids), l \in calls[k].add :
                            <<m, l>> \in tagged
              [] OTHER ->
                     \E j \in 1..Len(labels) : labels[j].name = calls[k].ids[1]

\* C7: once a remote call of search_messages, batch_delete_messages,
\* mark_as_read or archive_all_mail has failed, the operation issues no
\* further remote call and returns; what the calls that succeeded before it
\* did stays done.
C7_AbortOnFailure ==
    /\ ~lateCall
    /\ (failed /\ entry # "get_or_create_label") =>
           pc \in {"done", "m_after_search", "crashed"}
    /\ (failed /\ entry = "search_messages") => pc = "done" /\ retNone
    /\ (failed /\ entry = "main" /\ pc = "m_after_search") => retNone
    /\ AppliedRemain

\* a bulk delete whose second call failed after the first had deleted its ids
C7_Witness ==
    /\ entry = "batch_delete_messages" /\ pc = "done" /\ failed
    /\ Len(calls) = 2 /\ calls[1].ok /\ ~calls[2].ok
    /\ existing = SeqRange(message_ids) \ SeqRange(calls[1].ids)
    /\ existing # {}

\* C8: main issues a bulk-delete call only when --search and --delete are
\* both given, neither --archive-all-mail nor --mark-read is, the search
\* matched at least one message and the delete prompt was answered "y" or
\* "yes" in any case; otherwise no message is deleted.
C8_DeleteOnlyWhenConfirmed ==
    (entry = "main" /\ (CallsOf("batchDelete") # <<>> \/ existing # 1..nMsgs
                        \/ pc = "bd_loop")) =>
        /\ Truthy(args.search) /\ args.delete
        /\ ~args.archive_all_mail /\ ~args.mark_read
        /\ Len(messages) > 0 /\ ~retNone
        /\ prompts # <<>>
        /\ prompts[Len(prompts)].kind = "delete"
        /\ Lower(prompts[Len(prompts)].answer) \in {"y", "yes"}

\* a run of main that deleted what the search had found
C8_Witness ==
    /\ entry = "main" /\ pc = "done" /\ ~failed
    /\ Len(CallsOf("batchDelete")) = 1
    /\ Len(messages) >= 2
    /\ existing = (1..nMsgs) \ SeqRange(messages)

\* C9: mark_as_read issues one bulk-modify call per non-empty page it is
\* given, removing UNREAD and nothing else from that page's ids; the total it
\* reports is the number of ids it sent; when the first listing is empty it
\* issues no bulk-modify call and reports zero.
C9_MarkOneCallPerPage ==
    MarkScope =>
        /\ Len(calls) = IF pc = "mr_modify" THEN Len(pages) - 1 ELSE Len(pages)
        /\ \A k \in 1..Len(calls) :
               /\ calls[k].api = "batchModify"
               /\ calls[k].ids = pages[k]
               /\ calls[k].remove = {UNREAD}
               /\ calls[k].add = {}
        /\ inbox = inbox0 /\ tagged = {} /\ existing = 1..nMsgs
        /\ unread = unread0 \ UNION {SeqRange(calls[k].ids) :
                                         k \in {j \in 1..Len(calls) : calls[j].ok}}
        /\ reported # -1 =>
               /\ pc = "done" /\ ~failed
               /\ reported = SumLen(IdsOf(calls))
        /\ (pc = "done" /\ ~failed) => reported # -1
        /\ (pc = "done" /\ ~failed /\ pages = <<>>) =>
               calls = <<>> /\ reported = 0

\* a mark-read run over two pages, three ids sent and reported
C9_Witness ==
    /\ MarkScope /\ pc = "done" /\ ~failed
    /\ Len(pages) = 2 /\ Len(calls) = 2
    /\ reported = 3
    /\ unread = {}

\* C10: get_or_create_label returns the identifier of a label of the fetched
\* list bearing exactly the name, with no create call, when there is one;
\* otherwise it issues one create call and returns the identifier the service
\* gave the new label.
C10_LabelResolved ==
    (entry = "get_or_create_label" /\ pc = "done") =>
        IF \E k \in 1..Len(Labels0) : Labels0[k].name = label_name
        THEN /\ calls = <<>>
             /\ labels = Labels0
             /\ \E k \in 1..Len(Labels0) :
                    Labels0[k] = [name |-> label_name, id |-> label_id]
        ELSE /\ Len(calls) = 1
             /\ calls[1].api = "labels.create" /\ calls[1].ok
             /\ calls[1].ids = <<label_name>>
             /\ labels = Append(Labels0, [name |-> label_name, id |-> label_id])
             /\ \A k \in 1..Len(Labels0) : Labels0[k].id # label_id

\* a label created beside two labels of another name
C10_Witness ==
    /\ entry = "get_or_create_label" /\ pc = "done"
    /\ Len(calls) = 1 /\ Len(labels) = 3
    /\ labels[3] = [name |-> label_name, id |-> label_id]


\* C11: in a --search run of main, when search_messages aborts on a remote
\* failure and returns no results, main ends the run normally: no bulk-delete
\* call, no prompt, and no uncaught exception.
C11_SearchFailureEndsNormally ==
    (entry = "main" /\ retNone /\ pc # "m_after_search") =>
        /\ pc = "done"
        /\ prompts = <<>>
        /\ CallsOf("batchDelete") = <<>>

====
